---- MODULE Spec2Model ----
(***************************************************************************)
(* REDCap branching-logic parser: create_ast -> substitute -> evaluate,    *)
(* and the convenience entry point parse.                                  *)
(*                                                                         *)
(* A Python str is a sequence of code points, so that str comparison is    *)
(* the lexicographic order Python computes.  A Python value is a record    *)
(* tagged by its type (field t).  A raised exception is the record Raise.  *)
(* The expression text is a sequence of lexemes, the units the pyparsing   *)
(* terminals of the grammar match (whitespace is skipped between them).    *)
(***************************************************************************)
EXTENDS Integers, Sequences, FiniteSets, TLC

VARIABLES input_string, data_df, ast_as_list, boolean_expr, expr_result, pc

vars == <<input_string, data_df, ast_as_list, boolean_expr, expr_result, pc>>

----------------------------------------------------------------------------
(* Python values *)

PyNone == [t |-> "None"]

PyStr(s) == [t |-> "str", v |-> s]

PyInt(n) == [t |-> "int", v |-> n]

PyBool(b) == [t |-> "bool", v |-> b]

PyList(xs) == [t |-> "list", v |-> xs]

Raise(kind) == [t |-> "raise", v |-> kind]

IsRaise(x) == x.t = "raise"

----------------------------------------------------------------------------
(* str literals of the source, as code points *)

s_AND == <<65, 78, 68>>

s_OR == <<79, 82>>

s_NOT == <<33>>

s_EQ == <<61>>

s_NE == <<60, 62>>

s_LT == <<60>>

s_GT == <<62>>

s_LE == <<60, 61>>

s_GE == <<62, 61>>

s_LBRACK == <<91>>

s_RBRACK == <<93>>

s_LPAR == <<40>>

s_RPAR == <<41>>

----------------------------------------------------------------------------
(* myField *)

myField(field, event, check) ==
    [t |-> "myField", field |-> field, event |-> event, check |-> check]

\* bool(x) of an Optional[str]: None and the empty str are falsy
Truthy(x) == x.t = "str" /\ Len(x.v) > 0

myField__str__(self) ==
    LET event_string == IF Truthy(self.event)
                        THEN s_LBRACK \o self.event.v \o s_RBRACK
                        ELSE <<>>
        field_string == IF Truthy(self.check)
                        THEN s_LBRACK \o self.field.v \o s_LPAR \o self.check.v
                                 \o s_RPAR \o s_RBRACK
                        ELSE s_LBRACK \o self.field.v \o s_RBRACK
    IN  PyStr(event_string \o field_string)

create_my_field(tokens) == myField(tokens[1], PyNone, PyNone)

create_my_event_field(tokens) == myField(tokens[2], tokens[1], PyNone)

create_my_check(tokens) == myField(tokens[1], PyNone, tokens[2])

create_my_event_check(tokens) == myField(tokens[2], tokens[1], tokens[3])

----------------------------------------------------------------------------
(* Lexemes of the expression text.                                         *)
(*   br  : [w]        brc : [w(c)]      lit : 'w' or "w"                   *)
(*   op  : a comparison symbol          kw  : a word or "!"                *)
(*   lp  : (          rp  : )                                              *)

Lex(k, w, c) == [k |-> k, w |-> w, c |-> c]

LexBr(w) == Lex("br", w, <<>>)

LexBrc(w, c) == Lex("brc", w, c)

LexLit(w) == Lex("lit", w, <<>>)

LexOp(w) == Lex("op", w, <<>>)

LexKw(w) == Lex("kw", w, <<>>)

LexLp == Lex("lp", s_LPAR, <<>>)

LexRp == Lex("rp", s_RPAR, <<>>)

\* str.upper() on one code point
UpperChar(ch) == IF ch >= 97 /\ ch <= 122 THEN ch - 32 ELSE ch

Upper(s) == [i \in 1..Len(s) |-> UpperChar(s[i])]

\* pp.QuotedString(quote_char="[", end_quote_char="]"): the text between
\* the brackets
IsBracketed(lx) == lx.k \in {"br", "brc"}

QuotedBracket(lx) ==
    IF lx.k = "brc" THEN PyStr(lx.w \o s_LPAR \o lx.c \o s_RPAR) ELSE PyStr(lx.w)

\* the symbols pp.oneOf accepts as a comparison operator
OperatorSymbols == {s_EQ, s_NE, s_GT, s_GE, s_LT, s_LE}

NoMatch == [ok |-> FALSE, next |-> 0, node |-> PyNone]

Match(next, node) == [ok |-> TRUE, next |-> next, node |-> node]

Has(s, i) == i >= 1 /\ i <= Len(s)

\* field = varcheck_in_event | variable_in_event | variable_in_check
\*         | variable | value       (first alternative that matches wins)
Field(s, i) ==
    IF ~Has(s, i) THEN NoMatch
    ELSE IF IsBracketed(s[i]) /\ Has(s, i + 1) /\ s[i + 1].k = "brc"
    THEN Match(i + 2, create_my_event_check(
                 <<QuotedBracket(s[i]), PyStr(s[i + 1].w), PyStr(s[i + 1].c)>>))
    ELSE IF IsBracketed(s[i]) /\ Has(s, i + 1) /\ IsBracketed(s[i + 1])
    THEN Match(i + 2, create_my_event_field(
                 <<QuotedBracket(s[i]), QuotedBracket(s[i + 1])>>))
    ELSE IF s[i].k = "brc"
    THEN Match(i + 1, create_my_check(<<PyStr(s[i].w), PyStr(s[i].c)>>))
    ELSE IF IsBracketed(s[i])
    THEN Match(i + 1, create_my_field(<<QuotedBracket(s[i])>>))
    ELSE IF s[i].k = "lit"
    THEN Match(i + 1, PyStr(s[i].w))
    ELSE NoMatch

\* expression = pp.Group(field + operator + value)
Expression(s, i) ==
    LET f == Field(s, i)
    IN  IF f.ok /\ Has(s, f.next) /\ s[f.next].k = "op"
             /\ s[f.next].w \in OperatorSymbols
             /\ Has(s, f.next + 1) /\ s[f.next + 1].k = "lit"
        THEN Match(f.next + 2,
                   PyList(<<f.node, PyStr(s[f.next].w), PyStr(s[f.next + 1].w)>>))
        ELSE NoMatch

\* the operator list with the OR entry placed before the AND entry
OpListOrFirst ==
    << [expr |-> "not_",     arity |-> 1, assoc |-> "RIGHT"],
       [expr |-> "operator", arity |-> 2, assoc |-> "LEFT"],
       [expr |-> "or_",      arity |-> 2, assoc |-> "LEFT"],
       [expr |-> "and_",     arity |-> 2, assoc |-> "LEFT"] >>

\* the operator list handed to pp.infix_notation, tightest level first
OpList ==
    << [expr |-> "not_",     arity |-> 1, assoc |-> "RIGHT"],
       [expr |-> "operator", arity |-> 2, assoc |-> "LEFT"],
       [expr |-> "and_",     arity |-> 2, assoc |-> "LEFT"],
       [expr |-> "or_",      arity |-> 2, assoc |-> "LEFT"] >>

\* the token an operator expression of the list emits at lexeme i
\* (Keyword("!"), oneOf(...), CaselessKeyword("AND"), CaselessKeyword("OR"))
OpMatch(expr, s, i) ==
    IF ~Has(s, i) THEN NoMatch
    ELSE IF expr = "not_" /\ s[i].k = "kw" /\ s[i].w = s_NOT
    THEN Match(i + 1, PyStr(s_NOT))
    ELSE IF expr = "operator" /\ s[i].k = "op" /\ s[i].w \in OperatorSymbols
    THEN Match(i + 1, PyStr(s[i].w))
    ELSE IF expr = "and_" /\ s[i].k = "kw" /\ Upper(s[i].w) = s_AND
    THEN Match(i + 1, PyStr(s_AND))
    ELSE IF expr = "or_" /\ s[i].k = "kw" /\ Upper(s[i].w) = s_OR
    THEN Match(i + 1, PyStr(s_OR))
    ELSE NoMatch

RECURSIVE InfixLevel(_, _, _)
RECURSIVE InfixChain(_, _, _, _)

\* (opExpr + lastExpr)[1, ...] after a first operand: acc holds the tokens
\* matched so far, i is the lexeme after them
InfixChain(s, i, lvl, acc) ==
    LET o == OpMatch(OpList[lvl].expr, s, i)
        r == IF o.ok THEN InfixLevel(s, o.next, lvl - 1) ELSE NoMatch
    IN  IF r.ok
        THEN InfixChain(s, r.next, lvl, acc \o <<o.node, r.node>>)
        ELSE [next |-> i, toks |-> acc]

\* level 0 is base_expr | (lpar + ret + rpar); level k is
\* thisExpr = matchExpr | lastExpr for the k-th entry of the operator list
InfixLevel(s, i, lvl) ==
    IF lvl = 0
    THEN LET e == Expression(s, i)
         IN  IF e.ok THEN e
             ELSE IF Has(s, i) /\ s[i].k = "lp"
             THEN LET r == InfixLevel(s, i + 1, Len(OpList))
                  IN  IF r.ok /\ Has(s, r.next) /\ s[r.next].k = "rp"
                      THEN Match(r.next + 1, r.node)
                      ELSE NoMatch
             ELSE NoMatch
    ELSE IF OpList[lvl].arity = 1
    THEN \* right-associative prefix operator: Group(opExpr + thisExpr)
         LET o == OpMatch(OpList[lvl].expr, s, i)
             r == IF o.ok THEN InfixLevel(s, o.next, lvl) ELSE NoMatch
         IN  IF r.ok
             THEN Match(r.next, PyList(<<o.node, r.node>>))
             ELSE InfixLevel(s, i, lvl - 1)
    ELSE \* left-associative binary operator:
         \* Group(lastExpr + (opExpr + lastExpr)[1, ...])
         LET first == InfixLevel(s, i, lvl - 1)
             chain == InfixChain(s, first.next, lvl, <<first.node>>)
         IN  IF ~first.ok THEN NoMatch
             ELSE IF Len(chain.toks) = 1 THEN first
             ELSE Match(chain.next, PyList(chain.toks))

redcap_branching_logic_grammar(s, i) == InfixLevel(s, i, Len(OpList))

\* self.grammar.parse_string(input_string).as_list(): parse_all is not set,
\* so the grammar is matched at the start of the text and the rest is left
create_ast_as_list(input) ==
    LET r == redcap_branching_logic_grammar(input, 1)
    IN  IF r.ok THEN PyList(<<r.node>>) ELSE Raise("ParseException")

----------------------------------------------------------------------------
(* Substitution stage *)

\* str(x) for the values a data source holds
RECURSIVE Digits(_)
Digits(n) == IF n < 10 THEN <<48 + n>> ELSE Digits(n \div 10) \o <<48 + (n % 10)>>

str(x) ==
    IF x.t = "str" THEN x
    ELSE IF x.t = "int"
    THEN PyStr(IF x.v < 0 THEN <<45>> \o Digits(0 - x.v) ELSE Digits(x.v))
    ELSE myField__str__(x)

\* a < b on two str: the first differing code point decides, a proper
\* prefix is smaller
RECURSIVE StrLess(_, _)
StrLess(a, b) ==
    IF Len(b) = 0 THEN FALSE
    ELSE IF Len(a) = 0 THEN TRUE
    ELSE IF Head(a) # Head(b) THEN Head(a) < Head(b)
    ELSE StrLess(Tail(a), Tail(b))

\* int(s) of a str of decimal digits
RECURSIVE IntOf(_)
IntOf(s) == IF Len(s) = 0 THEN 0 ELSE 10 * IntOf(SubSeq(s, 1, Len(s) - 1)) + (s[Len(s)] - 48)

\* the comparisons carried out on the numbers the two texts denote
op_lookup_numeric(sym, a, b) ==
    IF sym = s_EQ THEN PyBool(a = b)
    ELSE IF sym = s_NE THEN PyBool(a # b)
    ELSE IF sym = s_LT THEN PyBool(IntOf(a.v) < IntOf(b.v))
    ELSE IF sym = s_GT THEN PyBool(IntOf(a.v) > IntOf(b.v))
    ELSE IF sym = s_LE THEN PyBool(IntOf(a.v) <= IntOf(b.v))
    ELSE PyBool(IntOf(a.v) >= IntOf(b.v))

\* op_lookup of __field_value_lookup: the operator module's functions
CompareSymbols == {s_EQ, s_NE, s_LT, s_GT, s_LE, s_GE}

op_lookup(sym, a, b) ==
    IF sym = s_EQ THEN PyBool(a = b)
    ELSE IF sym = s_NE THEN PyBool(a # b)
    ELSE IF a.t # "str" \/ b.t # "str" THEN Raise("TypeError")
    ELSE IF sym = s_LT THEN PyBool(StrLess(a.v, b.v))
    ELSE IF sym = s_GT THEN PyBool(StrLess(b.v, a.v))
    ELSE IF sym = s_LE THEN PyBool(~StrLess(b.v, a.v))
    ELSE PyBool(~StrLess(a.v, b.v))

\* a lookup that yields the empty text for a field the data source lacks
redcap_lookup_default(field_name, data) ==
    LET key == str(field_name).v
    IN  IF key \in DOMAIN data THEN str(data[key]) ELSE PyStr(<<>>)

\* str(data_df[str(field_name)])
redcap_lookup(field_name, data) ==
    LET key == str(field_name).v
    IN  IF key \in DOMAIN data THEN str(data[key]) ELSE Raise("KeyError")

\* the field reference itself taken as the field name
LookupKeyWhole(result) == result

\* field_name = result.field
LookupKey(result) == result.field

\* the myField branch of the loop body: results[index] is a myField
FieldBranch(results, index, data) ==
    IF ~Has(results, index + 1) THEN Raise("IndexError")
    ELSE IF results[index + 1].t = "list" THEN Raise("TypeError")
    ELSE IF ~(results[index + 1].t = "str" /\ results[index + 1].v \in CompareSymbols)
    THEN Raise("KeyError")
    ELSE IF ~Has(results, index + 2) THEN Raise("IndexError")
    ELSE LET field_value == redcap_lookup(LookupKey(results[index]), data)
         IN  IF IsRaise(field_value) THEN field_value
             ELSE op_lookup(results[index + 1].v, field_value, results[index + 2])

\* the ! token passed through with the connectives
IsConnectiveOrNot(result) == result \in {PyStr(s_AND), PyStr(s_OR), PyStr(s_NOT)}

\* elif result in ['AND', 'OR']
IsConnective(result) == result \in {PyStr(s_AND), PyStr(s_OR)}

RECURSIVE field_value_lookup(_, _)
RECURSIVE FieldValueLoop(_, _, _, _)

\* the for loop of __field_value_lookup from position index on
FieldValueLoop(results, data, index, scratch) ==
    IF index > Len(results) THEN PyList(scratch)
    ELSE LET result == results[index]
         IN  IF result.t = "list"
             THEN LET inner_layer == field_value_lookup(result.v, data)
                  IN  IF IsRaise(inner_layer) THEN inner_layer
                      ELSE FieldValueLoop(results, data, index + 1,
                               Append(scratch,
                                      IF Len(inner_layer.v) = 1
                                      THEN inner_layer.v[1]
                                      ELSE inner_layer))
             ELSE IF result.t = "myField"
             THEN LET field_result == FieldBranch(results, index, data)
                  IN  IF IsRaise(field_result) THEN field_result
                      ELSE PyList(Append(scratch, field_result))
             ELSE IF IsConnective(result)
             THEN FieldValueLoop(results, data, index + 1, Append(scratch, result))
             ELSE FieldValueLoop(results, data, index + 1, scratch)

field_value_lookup(results, data) == FieldValueLoop(results, data, 1, <<>>)

\* a call of __field_value_lookup(self, results, data_df) with the positional
\* arguments args: Python binds them before the body runs
call_field_value_lookup(args) ==
    IF Len(args) # 2 THEN Raise("TypeError")
    ELSE field_value_lookup(args[1].v, args[2])

----------------------------------------------------------------------------
(* Boolean evaluator *)

\* both connectives mapped to op.or_
bool_op_or(name, left, right) == left \/ right

\* op_lookup of __boolean_expr_evaluate: op.and_ and op.or_ on two bool
bool_op(name, left, right) ==
    IF name = s_AND THEN left /\ right ELSE left \/ right

RECURSIVE boolean_expr_evaluate(_)
RECURSIVE EvaluateLoop(_, _, _, _)

\* "if infix:" after a value was handled
ApplyInfix(expr, i, stack, infix) ==
    IF infix = PyNone THEN EvaluateLoop(expr, i + 1, stack, infix)
    ELSE IF Len(stack) < 2 THEN Raise("IndexError")
    ELSE LET left  == stack[Len(stack)]
             right == stack[Len(stack) - 1]
         IN  EvaluateLoop(expr, i + 1,
                          Append(SubSeq(stack, 1, Len(stack) - 2),
                                 bool_op(infix.v, left, right)),
                          PyNone)

\* the for loop of __boolean_expr_evaluate from position i on; its value is
\* the stack the loop leaves, or the exception it raises
EvaluateLoop(expr, i, stack, infix) ==
    IF i > Len(expr) THEN [t |-> "stack", v |-> stack]
    ELSE LET x == expr[i]
         IN  IF x.t = "bool"
             THEN ApplyInfix(expr, i, Append(stack, x.v), infix)
             ELSE IF x.t = "list"
             THEN LET inner == boolean_expr_evaluate(x.v)
                  IN  IF IsRaise(inner) THEN inner
                      ELSE ApplyInfix(expr, i, Append(stack, inner.v), infix)
             ELSE IF x.t = "str"
             THEN IF x.v \in {s_AND, s_OR}
                  THEN EvaluateLoop(expr, i + 1, stack, x)
                  ELSE Raise("KeyError")
             ELSE ApplyInfix(expr, i, stack, infix)

\* the stack when the loop over expr ends
FinalStack(expr) == EvaluateLoop(expr, 1, <<>>, PyNone)

\* return stack[0]
boolean_expr_evaluate(expr) ==
    LET r == FinalStack(expr)
    IN  IF IsRaise(r) THEN r
        ELSE IF Len(r.v) = 0 THEN Raise("IndexError")
        ELSE PyBool(r.v[1])

----------------------------------------------------------------------------
(* Inputs *)

\* the longest expression text without parentheses, counted in comparisons
\* and connectives
MaxChunks == 5

\* the longest expression text with parentheses, counted in comparisons,
\* connectives and parentheses
MaxParenChunks == 4

\* the longest level of a boolean list handed to evaluate directly
MaxLevel == 5

\* the largest number used as a literal or as a field value of a single
\* comparison
MaxNumber == 20

f_a == <<97>>

f_b == <<98>>

f_c == <<99>>

f_age == <<97, 103, 101>>

s_e == <<101>>

s_0 == <<48>>

s_1 == <<49>>

s_and == <<97, 110, 100>>

Fields == <<f_a, f_b, f_c>>

\* the text [f]='1'
Comparison(f) == <<LexBr(f), LexOp(s_EQ), LexLit(s_1)>>

ChunkAlphabet == {"CMP", "AND", "OR", "NOT"}

ParenAlphabet == ChunkAlphabet \cup {"LP", "RP"}

ChunkSeqs ==
    UNION {[1..n -> ChunkAlphabet] : n \in 0..MaxChunks}
    \cup UNION {[1..n -> ParenAlphabet] : n \in 0..MaxParenChunks}

\* the text of a sequence of chunks; the k-th comparison of a text tests the
\* k-th field (cyclically) against '1'
RECURSIVE ChunkText(_, _)
ChunkText(seq, k) ==
    IF Len(seq) = 0 THEN <<>>
    ELSE IF Head(seq) = "CMP"
    THEN Comparison(Fields[(k % Len(Fields)) + 1]) \o ChunkText(Tail(seq), k + 1)
    ELSE <<CASE Head(seq) = "AND" -> LexKw(s_AND)
             [] Head(seq) = "OR"  -> LexKw(s_OR)
             [] Head(seq) = "NOT" -> LexKw(s_NOT)
             [] Head(seq) = "LP"  -> LexLp
             [] OTHER              -> LexRp>> \o ChunkText(Tail(seq), k)

\* further texts: a literal on the left of a comparison, a comparison
\* operator between two comparisons, a lower-case connective, a field
\* reference alone or with three bracket groups, parenthesised groups
SpecialInputs ==
    { <<LexLit(s_1), LexOp(s_EQ), LexLit(s_1)>>,
      <<LexLit(s_AND), LexOp(s_EQ), LexLit(s_1)>>,
      <<LexLit(s_1), LexOp(s_EQ), LexLit(s_1), LexKw(s_AND)>> \o Comparison(f_a),
      Comparison(f_a) \o <<LexOp(s_EQ)>> \o Comparison(f_b),
      Comparison(f_a) \o <<LexKw(s_and)>> \o Comparison(f_b),
      <<LexBr(f_a)>>,
      <<LexBr(f_a), LexBr(f_b), LexBr(f_c), LexOp(s_EQ), LexLit(s_1)>>,
      ChunkText(<<"LP", "CMP", "OR", "CMP", "RP", "AND", "CMP">>, 0),
      ChunkText(<<"CMP", "AND", "LP", "CMP", "OR", "CMP", "RP">>, 0),
      ChunkText(<<"NOT", "LP", "CMP", "AND", "CMP", "RP">>, 0),
      ChunkText(<<"LP", "LP", "CMP", "OR", "CMP", "RP", "RP">>, 0),
      <<LexBr(f_a), LexOp(s_NE), LexLit(s_1), LexKw(s_AND),
        LexBr(f_b), LexOp(s_EQ), LexLit(s_0), LexKw(s_OR),
        LexBr(f_c), LexOp(s_GT), LexLit(s_0)>> }

Inputs == {ChunkText(c, 0) : c \in ChunkSeqs} \cup SpecialInputs

\* data sources over the fields a, b, c: each is absent or holds '1' or '0'
TruthSources ==
    UNION {[D -> {PyStr(s_1), PyStr(s_0)}] : D \in SUBSET {f_a, f_b, f_c}}

\* single comparisons of the field age, in the four field-reference forms
LeafForms ==
    { <<LexBr(f_age)>>,
      <<LexBr(s_e), LexBr(f_age)>>,
      <<LexBrc(f_age, s_1)>>,
      <<LexBr(s_e), LexBrc(f_age, s_1)>> }

LeafInputs ==
    { form \o <<LexOp(sym), LexLit(Digits(n))>> :
        form \in LeafForms, sym \in OperatorSymbols, n \in 0..MaxNumber }

\* a data source keyed by the textual forms of the field references as well
QualifiedSource ==
    [k \in {myField__str__(Field(form, 1).node).v : form \in LeafForms}
            \cup {f_age} |->
        IF k = f_age THEN PyStr(Digits(MaxNumber)) ELSE PyInt(Len(k))]

\* data sources for the field age: a number or its text; no such field
LeafSources ==
    {[k \in {f_age} |-> v] :
        v \in {PyInt(n) : n \in 0..MaxNumber} \cup {PyStr(Digits(n)) : n \in 0..MaxNumber}}
    \cup {QualifiedSource, <<>>}

\* boolean lists a caller can hand to evaluate
LevelItems ==
    { PyBool(TRUE), PyBool(FALSE), PyStr(s_AND), PyStr(s_OR),
      PyList(<<PyBool(TRUE), PyStr(s_AND), PyBool(FALSE)>>),
      PyList(<<PyBool(FALSE), PyStr(s_OR), PyBool(TRUE)>>),
      PyList(<<PyBool(TRUE), PyBool(FALSE)>>),
      PyList(<<>>) }

Levels == UNION {[1..n -> LevelItems] : n \in 0..MaxLevel}

----------------------------------------------------------------------------
(* The parser object's entry points.  pc names the last call made:         *)
(* "text" (none yet, an expression text at hand), "list" (none yet, a      *)
(* boolean list at hand), "create_ast", "substitute", "evaluate", "parse". *)

InitText(texts) ==
    /\ input_string \in texts
    /\ data_df = <<>>
    /\ ast_as_list = PyNone
    /\ boolean_expr = PyNone
    /\ expr_result = PyNone
    /\ pc = "text"

Init == InitText(Inputs)

InitLeaf == InitText(LeafInputs)

InitEval ==
    /\ input_string = <<>>
    /\ data_df = <<>>
    /\ ast_as_list = PyNone
    /\ boolean_expr \in {PyList(l) : l \in Levels}
    /\ expr_result = PyNone
    /\ pc = "list"

\* self.create_ast(input_string)
CreateAst ==
    /\ pc = "text"
    /\ ast_as_list' = create_ast_as_list(input_string)
    /\ pc' = "create_ast"
    /\ UNCHANGED <<input_string, data_df, boolean_expr, expr_result>>

\* self.substitute(ast_as_list, data) for a data source of the caller's
Substitute(sources) ==
    /\ pc = "create_ast"
    /\ ~IsRaise(ast_as_list)
    /\ \E data \in sources :
         /\ data_df' = data
         /\ boolean_expr' = call_field_value_lookup(<<ast_as_list, data>>)
    /\ pc' = "substitute"
    /\ UNCHANGED <<input_string, ast_as_list, expr_result>>

\* self.evaluate(boolean_expr)
Evaluate ==
    /\ \/ pc = "substitute" /\ ~IsRaise(boolean_expr)
       \/ pc = "list"
    /\ expr_result' = boolean_expr_evaluate(boolean_expr.v)
    /\ pc' = "evaluate"
    /\ UNCHANGED <<input_string, data_df, ast_as_list, boolean_expr>>

\* self.parse(input_string): the three stages in order; an exception of a
\* stage ends the call
Parse ==
    /\ pc = "text"
    /\ LET ast  == create_ast_as_list(input_string)
           bexp == IF IsRaise(ast) THEN ast ELSE call_field_value_lookup(<<ast>>)
           res  == IF IsRaise(bexp) THEN bexp ELSE boolean_expr_evaluate(bexp.v)
       IN  /\ ast_as_list' = ast
           /\ boolean_expr' = bexp
           /\ expr_result' = res
    /\ pc' = "parse"
    /\ UNCHANGED <<input_string, data_df>>

Next == CreateAst \/ Substitute(TruthSources) \/ Evaluate \/ Parse

NextLeaf == CreateAst \/ Substitute(LeafSources) \/ Evaluate \/ Parse

NextEval == Evaluate

Spec == Init /\ [][Next]_vars

SpecLeaf == InitLeaf /\ [][NextLeaf]_vars

SpecEval == InitEval /\ [][NextEval]_vars

----------------------------------------------------------------------------
(* Vocabulary of the properties *)

\* LookupError and its subclasses in Python's exception hierarchy
LookupErrors == {"LookupError", "KeyError", "IndexError"}

\* the grammar matches the text as a whole
WholeMatch(s) ==
    LET r == redcap_branching_logic_grammar(s, 1)
    IN  r.ok /\ r.next = Len(s) + 1

\* a comparison leaf of the tree: (field reference, operator, literal)
IsLeaf(node) ==
    node.t = "list" /\ Len(node.v) = 3 /\ node.v[1].t = "myField"

\* the field names of the comparison leaves of a tree
RECURSIVE LeafFields(_)
LeafFields(node) ==
    IF node.t # "list" THEN {}
    ELSE IF IsLeaf(node) THEN {node.v[1].field.v}
    ELSE UNION {LeafFields(node.v[i]) : i \in 1..Len(node.v)}

\* the truth of a comparison leaf under a data source holding its field
LeafHolds(leaf, data) ==
    op_lookup(leaf.v[2].v, str(data[leaf.v[1].field.v]), leaf.v[3]).v

\* the text is A AND B OR C for three comparisons of field references
AndOrShape(s) ==
    LET A == Expression(s, 1)
        B == Expression(s, A.next + 1)
        C == Expression(s, B.next + 1)
    IN  /\ A.ok /\ IsLeaf(A.node)
        /\ Has(s, A.next) /\ s[A.next] = LexKw(s_AND)
        /\ B.ok /\ IsLeaf(B.node)
        /\ Has(s, B.next) /\ s[B.next] = LexKw(s_OR)
        /\ C.ok /\ IsLeaf(C.node)
        /\ C.next = Len(s) + 1

\* a level alternates values and connectives, beginning and ending with a
\* value; a nested level obeys the same rule
RECURSIVE Alternating(_)
Alternating(level) ==
    /\ Len(level) % 2 = 1
    /\ \A i \in 1..Len(level) :
         IF i % 2 = 1
         THEN \/ level[i].t = "bool"
              \/ level[i].t = "list" /\ Alternating(level[i].v)
         ELSE level[i] \in {PyStr(s_AND), PyStr(s_OR)}

\* the naive left-to-right reading of the first n items of an alternating
\* level: ((v1 c1 v2) c2 v3) ...
RECURSIVE NaiveFold(_, _)
NaiveFold(level, n) ==
    LET last == IF level[n].t = "bool" THEN level[n].v
                ELSE NaiveFold(level[n].v, Len(level[n].v))
    IN  IF n = 1 THEN last
        ELSE IF level[n - 1] = PyStr(s_AND)
        THEN NaiveFold(level, n - 2) /\ last
        ELSE NaiveFold(level, n - 2) \/ last

\* a is before b in the lexicographic order of code points
LexLess(a, b) ==
    \E k \in 1..Len(b) :
        /\ \A j \in 1..(k - 1) : j <= Len(a) /\ a[j] = b[j]
        /\ \/ k = Len(a) + 1
           \/ k <= Len(a) /\ a[k] < b[k]

\* the comparison a symbol denotes, on two texts
TextCompare(sym, a, b) ==
    CASE sym = s_EQ -> a = b
      [] sym = s_NE -> a # b
      [] sym = s_LT -> LexLess(a, b)
      [] sym = s_GT -> LexLess(b, a)
      [] sym = s_LE -> LexLess(a, b) \/ a = b
      [] sym = s_GE -> LexLess(b, a) \/ a = b

----------------------------------------------------------------------------
(* Properties *)

\* C1: parse(expression_text) returns a single boolean, and no error, for a
\* well-formed expression such as [variable]='1'.
C1_ParseReturnsBoolean ==
    (pc = "parse" /\ WholeMatch(input_string)) => expr_result.t = "bool"

\* C2: the text A AND B OR C is grouped as (A AND B) OR C, and substitute
\* followed by evaluate returns (a AND b) OR c for every truth assignment
\* of the three comparisons.
C2_AndBindsTighterThanOr ==
    AndOrShape(input_string) =>
        LET s == input_string
            A == Expression(s, 1)
            B == Expression(s, A.next + 1)
            C == Expression(s, B.next + 1)
            resolvable == LeafFields(ast_as_list) \subseteq DOMAIN data_df
        IN  /\ pc \in {"create_ast", "substitute", "evaluate"} =>
                 ast_as_list =
                   PyList(<<PyList(<<PyList(<<A.node, PyStr(s_AND), B.node>>),
                                     PyStr(s_OR), C.node>>)>>)
            /\ (pc = "substitute" /\ resolvable) => ~IsRaise(boolean_expr)
            /\ pc = "evaluate" =>
                 expr_result =
                   PyBool((LeafHolds(A.node, data_df) /\ LeafHolds(B.node, data_df))
                          \/ LeafHolds(C.node, data_df))

\* C2 witness: A is false and C is true, where the two groupings differ
C2_Witness ==
    /\ pc = "evaluate"
    /\ input_string = ChunkText(<<"CMP", "AND", "CMP", "OR", "CMP">>, 0)
    /\ data_df[f_a] = PyStr(s_0)
    /\ data_df[f_b] = PyStr(s_1)
    /\ data_df[f_c] = PyStr(s_1)
    /\ expr_result = PyBool(TRUE)

\* C3: substitute on a tree with a comparison leaf whose field the data
\* source does not hold fails with a lookup error and returns no boolean
\* tree, wherever the leaf sits and whatever the other leaves evaluate to.
C3_UnknownFieldRaises ==
    (pc = "substitute" /\ ~(LeafFields(ast_as_list) \subseteq DOMAIN data_df)) =>
        (IsRaise(boolean_expr) /\ boolean_expr.v \in LookupErrors)

\* C3 witness: the unknown field is the right operand of an OR whose left
\* operand is true
C3_Witness ==
    /\ pc = "substitute"
    /\ input_string = ChunkText(<<"CMP", "OR", "CMP">>, 0)
    /\ DOMAIN data_df = {f_a}
    /\ data_df[f_a] = PyStr(s_1)
    /\ boolean_expr = Raise("KeyError")

\* C4: create_ast fails with a syntax error for every text that does not as
\* a whole match the grammar, a dangling AND after an expression included.
C4_PartialMatchRaises ==
    (pc = "create_ast" /\ ~WholeMatch(input_string)) => IsRaise(ast_as_list)

\* C5: evaluate signals an error whenever a level ends with an empty stack
\* or with more than one value on the stack; it returns no boolean then.
C5_ResidualStackRaises ==
    (/\ pc = "evaluate"
     /\ ~IsRaise(FinalStack(boolean_expr.v))
     /\ Len(FinalStack(boolean_expr.v).v) # 1) => IsRaise(expr_result)

\* C6: a comparison leaf (field, op, literal) becomes text(data[field]) op
\* literal, the looked-up value on the left, both sides compared as text in
\* lexicographic order; [age]>'18' with age "20" is True, and a looked-up
\* 9 compared with < against '10' is False.
C6_TextComparison ==
    (pc = "substitute" /\ f_age \in DOMAIN data_df) =>
        LET leaf == ast_as_list.v[1]
            sym == leaf.v[2].v
            literal == leaf.v[3].v
            value == data_df[f_age]
        IN  /\ boolean_expr =
                 PyList(<<PyBool(TextCompare(sym, str(value).v, literal))>>)
            /\ (sym = s_GT /\ literal = <<49, 56>> /\ value = PyStr(<<50, 48>>)) =>
                 boolean_expr = PyList(<<PyBool(TRUE)>>)
            /\ (sym = s_LT /\ literal = <<49, 48>> /\ value \in {PyInt(9), PyStr(<<57>>)}) =>
                 boolean_expr = PyList(<<PyBool(FALSE)>>)

\* C6 witness: the number 9 looked up and compared with < against '10'
C6_Witness ==
    /\ pc = "substitute"
    /\ input_string = <<LexBr(f_age), LexOp(s_LT), LexLit(<<49, 48>>)>>
    /\ data_df = [k \in {f_age} |-> PyInt(9)]
    /\ boolean_expr = PyList(<<PyBool(FALSE)>>)

\* C7: for every tree the parser produces and every data source resolving
\* its fields, each level of the output of substitute alternates values
\* and AND/OR connectives, beginning and ending with a value; no level is
\* empty and no two values are adjacent.
C7_SubstituteAlternates ==
    (pc = "substitute" /\ ~IsRaise(boolean_expr)) => Alternating(boolean_expr.v)

\* C8: evaluate on a level of n values separated by n-1 connectives returns
\* the strict left-to-right fold of the values, nested levels reduced
\* first, and ends with exactly one value on the stack.
C8_LeftFold ==
    (pc = "evaluate" /\ Alternating(boolean_expr.v)) =>
        /\ expr_result = PyBool(NaiveFold(boolean_expr.v, Len(boolean_expr.v)))
        /\ FinalStack(boolean_expr.v) = [t |-> "stack", v |-> <<expr_result.v>>]

\* C8 witness: True OR False AND False, which a right-to-left fold would
\* make True
C8_Witness ==
    /\ pc = "evaluate"
    /\ boolean_expr = PyList(<<PyBool(TRUE), PyStr(s_OR), PyBool(FALSE),
                               PyStr(s_AND), PyBool(FALSE)>>)
    /\ expr_result = PyBool(FALSE)

\* C9: substitute drops a ! token and passes the boolean of its operand
\* through, so create_ast -> substitute -> evaluate returns for !C the
\* boolean it returns for C, for every data source.
C9_NegationNotApplied ==
    (Len(input_string) > 0 /\ Head(input_string) = LexKw(s_NOT)) =>
        LET rest == Tail(input_string)
            rest_ast == create_ast_as_list(rest)
            rest_bexp == call_field_value_lookup(<<rest_ast, data_df>>)
        IN  /\ pc = "create_ast" => IsRaise(ast_as_list) = IsRaise(rest_ast)
            /\ pc = "substitute" => boolean_expr = rest_bexp
            /\ pc = "evaluate" =>
                 /\ expr_result = boolean_expr_evaluate(rest_bexp.v)
                 /\ rest = Comparison(f_a) =>
                      expr_result = PyBool(data_df[f_a] = PyStr(s_1))

\* C9 witness: ![a]='1' evaluates to True where a is '1'
C9_Witness ==
    /\ pc = "evaluate"
    /\ input_string = <<LexKw(s_NOT)>> \o Comparison(f_a)
    /\ data_df[f_a] = PyStr(s_1)
    /\ expr_result = PyBool(TRUE)

\* C10: the lookup key of a comparison leaf is the field name alone: a leaf
\* with an event and/or a checkbox option substitutes to what the leaf of the
\* bare field with the same operator and literal substitutes to, under the
\* same data source, and fails where it fails.
C10_QualifiersIgnored ==
    pc = "substitute" =>
        LET leaf == ast_as_list.v[1]
            bare == <<LexBr(leaf.v[1].field.v), LexOp(leaf.v[2].v),
                      LexLit(leaf.v[3].v)>>
            bare_ast == create_ast_as_list(bare)
        IN  /\ bare_ast.v[1].v[1] = myField(leaf.v[1].field, PyNone, PyNone)
            /\ boolean_expr = call_field_value_lookup(<<bare_ast, data_df>>)

\* C10 witness: [e][age(1)] = '20' under a data source that also holds keys
\* for the qualified forms
C10_Witness ==
    /\ pc = "substitute"
    /\ ast_as_list.v[1].v[1] = myField(PyStr(f_age), PyStr(s_e), PyStr(s_1))
    /\ ast_as_list.v[1].v[2] = PyStr(s_EQ)
    /\ data_df = QualifiedSource
    /\ boolean_expr = PyList(<<PyBool(TRUE)>>)

====
